---------------------------- MODULE Spec2Model ----------------------------
(***************************************************************************)
(* A model of mpf/plugins/bcp.py: the Backbox Control Protocol client.     *)
(*                                                                         *)
(* Strings are sequences of atoms.  An atom is either one of the           *)
(* delimiter characters the code looks at ("\n", "?", "&", "=", "+", " ")  *)
(* or a run of characters the code never looks into ("goodbye", "pong").   *)
(***************************************************************************)
EXTENDS Integers, Sequences, FiniteSets, TLC

(***************************************************************************)
(* Bounds of the model.                                                    *)
(***************************************************************************)
\* number of messages in the byte stream fed to the framer
MaxMsgs == 2
\* number of bytes in one message of that stream
MaxMsgLen == 2
\* number of parameters of a command given to the codec
MaxParams == 2
\* number of things the host and the peers do to the program: BCP.send()
\* calls, BCP.shutdown() calls and messages sent by a peer
MaxEvents == 2
\* number of TCP connects that succeed, per connection
MaxSockets == 2
\* the configured connection_attempts of a bounded connection
ConnectionAttempts == 3
\* connection_attempts: the default, no bound
Unbounded == -1

(***************************************************************************)
(* String helpers (Python str methods used by the code).                   *)
(***************************************************************************)
LF == "\n"

Contains(s, a) == \E i \in 1..Len(s) : s[i] = a

FirstIndex(s, a) == CHOOSE i \in 1..Len(s) : s[i] = a /\ \A j \in 1..(i - 1) : s[j] # a

\* str.split(sep): the pieces between the separators, empty pieces kept
RECURSIVE Split(_, _)
Split(s, sep) ==
    IF Contains(s, sep)
    THEN LET i == FirstIndex(s, sep)
         IN  <<SubSeq(s, 1, i - 1)>> \o Split(SubSeq(s, i + 1, Len(s)), sep)
    ELSE <<s>>

\* str.split(sep, 1): at most one cut, at the first separator
Split1(s, sep) ==
    IF Contains(s, sep)
    THEN LET i == FirstIndex(s, sep)
         IN  <<SubSeq(s, 1, i - 1), SubSeq(s, i + 1, Len(s))>>
    ELSE <<s>>

Last(s) == s[Len(s)]
AllButLast(s) == SubSeq(s, 1, Len(s) - 1)

RECURSIVE SelectNonEmpty(_)
SelectNonEmpty(msgs) ==
    IF msgs = <<>> THEN <<>>
    ELSE (IF Head(msgs) # <<>> THEN <<Head(msgs)>> ELSE <<>>)
         \o SelectNonEmpty(Tail(msgs))

(***************************************************************************)
(* The framer of BCPClient.receive_loop: one pass of the loop body over a  *)
(* non-empty chunk `data`, with the fragment left by the previous pass.    *)
(* messages[-1:] is a one-element list and so always true: the text after  *)
(* the last line feed (possibly empty) becomes the new fragment.           *)
(***************************************************************************)
FrameNoCarry(fragment, data) ==
    IF ~Contains(data, LF)
    THEN [fragment |-> data, messages |-> <<>>]
    ELSE LET messages == Split(data, LF)
         IN  [fragment |-> Last(messages), messages |-> AllButLast(messages)]

Frame(fragment, data) ==
    LET joined == IF fragment # <<>> THEN fragment \o data ELSE data
    IN  IF ~Contains(joined, LF)
        THEN [fragment |-> joined, messages |-> <<>>]
        ELSE LET messages == Split(joined, LF)
             IN  [fragment |-> Last(messages), messages |-> AllButLast(messages)]


(***************************************************************************)
(* The command codec: encode_command_string and decode_command_string.     *)
(* A kwargs dict is written as the sequence of its <<key, value>> pairs in *)
(* the order the dict iterates them; keys and values are strings.          *)
(***************************************************************************)
\* str.lower() on the atoms that hold upper-case letters
LowerMap ==
    ("Pong" :> "pong") @@ ("Trigger" :> "trigger") @@ ("A1" :> "a1")

LowerAtom(a) == IF a \in DOMAIN LowerMap THEN LowerMap[a] ELSE a

LowerStr(s) == [i \in 1..Len(s) |-> LowerAtom(s[i])]

\* urllib.quote_plus on this alphabet: a space becomes "+", the
\* alphanumeric runs are left as they are
QuotePlus(s) == [i \in 1..Len(s) |-> IF s[i] = " " THEN "+" ELSE s[i]]

\* str.replace('+', ' ')
PlusToSpace(s) == [i \in 1..Len(s) |-> IF s[i] = "+" THEN " " ELSE s[i]]

\* urllib.unquote on this alphabet: "%20" is a space
Unquote(s) == [i \in 1..Len(s) |-> IF s[i] = "%20" THEN " " ELSE s[i]]

\* urllib.urlencode(kwargs): 'k=v' for every item, joined by '&'
RECURSIVE UrlEncode(_)
UrlEncode(kwargs) ==
    IF kwargs = <<>> THEN <<>>
    ELSE LET item == QuotePlus(kwargs[1][1]) \o <<"=">> \o QuotePlus(kwargs[1][2])
         IN  IF Len(kwargs) = 1 THEN item
             ELSE item \o <<"&">> \o UrlEncode(Tail(kwargs))

\* scrubbed_kwargs (lower-cased keys and values) is built and then
\* overwritten with urlencode(kwargs), the kwargs as given; urlunparse puts
\* '?' and the query after the lower-cased command when the query is not
\* empty.
EncodeCommandString(bcp_command, kwargs) ==
    LET scrubbed_kwargs == UrlEncode(kwargs)
    IN  IF scrubbed_kwargs = <<>> THEN LowerStr(bcp_command)
        ELSE LowerStr(bcp_command) \o <<"?">> \o scrubbed_kwargs

\* urlparse.parse_qsl(query): the (name, value) pairs of the '&'-separated
\* fields that hold '=' and a non-blank value
RECURSIVE ParseQsl(_)
ParseQsl(fields) ==
    IF fields = <<>> THEN <<>>
    ELSE LET nv == Split1(Head(fields), "=")
             rest == ParseQsl(Tail(fields))
         IN  IF Head(fields) = <<>> \/ Len(nv) # 2 \/ nv[2] = <<>> THEN rest
             ELSE <<<<Unquote(PlusToSpace(nv[1])), Unquote(PlusToSpace(nv[2]))>>>>
                  \o rest

\* urlparse.parse_qs keeps a list of values for each name, and the loop of
\* decode_command_string replaces it by unquote of its first value
QueryDict(pairs) ==
    [k \in {pairs[i][1] : i \in 1..Len(pairs)} |->
        LET i == CHOOSE i \in 1..Len(pairs) :
                    /\ pairs[i][1] = k
                    /\ \A j \in 1..(i - 1) : pairs[j][1] # k
        IN  Unquote(pairs[i][2])]

\* The whole string is lower-cased (the values with it), then urlsplit cuts
\* it at the first '?' (the alphabet holds no ':', '#' or '//', the other
\* things urlsplit cuts).
DecodeCommandString(bcp_string) ==
    LET parts == Split1(LowerStr(bcp_string), "?")
        query == IF Len(parts) = 2 THEN parts[2] ELSE <<>>
    IN  [cmd |-> parts[1], kwargs |-> QueryDict(ParseQsl(Split(query, "&")))]

\* the dict a kwargs sequence stands for
AsDict(kwargs) ==
    [k \in {kwargs[i][1] : i \in 1..Len(kwargs)} |->
        LET i == CHOOSE i \in 1..Len(kwargs) : kwargs[i][1] = k IN kwargs[i][2]]

VARIABLES
    \* ---- the framer harness
    fr_original,    \* the messages the peer sent, in order
    fr_stream,      \* their bytes not yet returned by recv()
    fr_received,    \* the bytes recv() has returned so far
    fr_fragment,    \* receive_loop's local `fragment`
    fr_segments,    \* the entries of `messages` the for loop has gone over
    fr_emitted,     \* the non-empty messages the for loop has processed
    fr_carried,     \* whether some pass left a non-empty fragment
    \* ---- the codec harness
    cd_pc,          \* "input", "encoded" or "decoded"
    cd_command,     \* bcp_command given to encode_command_string
    cd_kwargs,      \* its kwargs
    cd_string,      \* the encoded string
    cd_decoded,     \* decode_command_string of it
    \* ---- configuration (machine.config['BCP']['connections'])
    connection_config,  \* the connections configured, in order
    cfg_attempts,       \* config['connection_attempts'] of each
    cfg_require,        \* config['require_connection'] of each
    \* ---- BCP
    bcp_clients,        \* self.bcp_clients, a list
    receive_queue,      \* self.receive_queue
    machine_done,       \* machine.done
    \* ---- BCPClient, one per connection
    socket,                     \* self.socket: 0 is None, g > 0 the g-th socket
    connection_attempts,        \* self.connection_attempts
    attempt_socket_connection,  \* self.attempt_socket_connection
    send_goodbye,               \* self.send_goodbye
    sending_queue,              \* self.sending_queue
    sending_thread,             \* the sending_loop threads started, by socket
    receive_thread,             \* the receive_loop threads started, by socket
    \* ---- the host thread
    host,               \* where the host thread is
    sends,              \* BCP.send() calls the host has made
    shutdowns,          \* BCP.shutdown() calls the host has made
    \* ---- the surroundings
    env,                \* what the host and the peers may do in this run
    \* ---- the peers and the host's collaborators
    wire,               \* per connection: what its sockets saw, in order
    posted,             \* machine.events.post calls, in order
    dmd_frames,         \* dmd.update calls, in order
    \* ---- history
    sockets_opened,     \* TCP connects that succeeded
    tcp_connects,       \* TCP connects issued
    failed_streak,      \* TCP connects failed since the last success
    connect_failures,   \* TCP connects failed
    goodbyes,           \* receive_goodbye calls
    shutdown_signals,   \* executions of `machine.done = True`
    handler_calls,      \* calls of a bcp_receive_commands handler
    next_id,            \* number of the next message put on a sending queue
    arrived,            \* messages read off the sockets
    decoded,            \* arrival numbers of the messages decoded
    dispatched,         \* ... of those given to a handler or answered
    unapplied,          \* immediate messages read and not yet applied
    tick_handled,       \* queued messages the tick has handled
    stop_goodbye        \* the goodbyes stop() put before closing a socket

frVars ==
    <<fr_original, fr_stream, fr_received, fr_fragment, fr_segments, fr_emitted,
      fr_carried>>

cdVars == <<cd_pc, cd_command, cd_kwargs, cd_string, cd_decoded>>

cfgVars == <<connection_config, cfg_attempts, cfg_require, env>>

progVars ==
    <<bcp_clients, receive_queue, machine_done, socket, connection_attempts,
      attempt_socket_connection, send_goodbye, sending_queue, sending_thread,
      receive_thread, wire, posted, dmd_frames, sockets_opened,
      tcp_connects, failed_streak, connect_failures, goodbyes, shutdown_signals,
      handler_calls, next_id, arrived, decoded, dispatched, unapplied,
      tick_handled, stop_goodbye>>

hostVars == <<host, sends, shutdowns>>

vars == <<frVars, cdVars, cfgVars, progVars, hostVars>>

(***************************************************************************)
(* The program state as one record, so that a method that calls other      *)
(* methods is the composition of their effects.                            *)
(***************************************************************************)
Conns == {"c1", "c2"}

Sockets == 1..MaxSockets

State ==
    [bcp_clients |-> bcp_clients, receive_queue |-> receive_queue,
     machine_done |-> machine_done, socket |-> socket,
     connection_attempts |-> connection_attempts,
     attempt_socket_connection |-> attempt_socket_connection,
     send_goodbye |-> send_goodbye, sending_queue |-> sending_queue,
     sending_thread |-> sending_thread, receive_thread |-> receive_thread,
     wire |-> wire, posted |-> posted,
     dmd_frames |-> dmd_frames, sockets_opened |-> sockets_opened,
     tcp_connects |-> tcp_connects, failed_streak |-> failed_streak,
     connect_failures |-> connect_failures, goodbyes |-> goodbyes,
     shutdown_signals |-> shutdown_signals, handler_calls |-> handler_calls,
     next_id |-> next_id, arrived |-> arrived, decoded |-> decoded,
     dispatched |-> dispatched, unapplied |-> unapplied,
     tick_handled |-> tick_handled, stop_goodbye |-> stop_goodbye]

Becomes(st) ==
    /\ bcp_clients' = st.bcp_clients
    /\ receive_queue' = st.receive_queue
    /\ machine_done' = st.machine_done
    /\ socket' = st.socket
    /\ connection_attempts' = st.connection_attempts
    /\ attempt_socket_connection' = st.attempt_socket_connection
    /\ send_goodbye' = st.send_goodbye
    /\ sending_queue' = st.sending_queue
    /\ sending_thread' = st.sending_thread
    /\ receive_thread' = st.receive_thread
    /\ wire' = st.wire
    /\ posted' = st.posted
    /\ dmd_frames' = st.dmd_frames
    /\ sockets_opened' = st.sockets_opened
    /\ tcp_connects' = st.tcp_connects
    /\ failed_streak' = st.failed_streak
    /\ connect_failures' = st.connect_failures
    /\ goodbyes' = st.goodbyes
    /\ shutdown_signals' = st.shutdown_signals
    /\ handler_calls' = st.handler_calls
    /\ next_id' = st.next_id
    /\ arrived' = st.arrived
    /\ decoded' = st.decoded
    /\ dispatched' = st.dispatched
    /\ unapplied' = st.unapplied
    /\ tick_handled' = st.tick_handled
    /\ stop_goodbye' = st.stop_goodbye

(***************************************************************************)
(* The messages of the model.                                              *)
(***************************************************************************)
BcpVersion == <<"1.0">>

HelloMessage == <<"hello", "?", "version", "=">> \o BcpVersion

GoodbyeMessage == <<"goodbye">>

\* what the peers send
InMessages ==
    { <<"goodbye">>,
      <<"hello", "?", "version", "=", "1.0">>,
      <<"foo", "?", "x", "=", "1">>,
      <<"trigger", "?", "name", "=", "pong">>,
      <<"dmd_frame", "?", "frame">> }

\* self.bcp_commands of BCPClient and self.bcp_receive_commands of BCP
ImmediateCommands == { <<"hello">>, <<"goodbye">> }

ReceiveCommands == { <<"error">>, <<"switch">>, <<"trigger">> }

(***************************************************************************)
(* BCPClient methods, as functions of the program state.                   *)
(***************************************************************************)
\* self.sending_queue.put(message)
QueuePut(st, c, message) ==
    [st EXCEPT !.sending_queue[c] = Append(@, [id |-> st.next_id, msg |-> message]),
               !.next_id = @ + 1]

\* The connect of setup_client_socket succeeded: the threads are started
\* (create_socket_threads) and send_hello puts the hello; the socket being
\* there, that send() is its put alone.
ConnectSucceeded(st, c) ==
    LET g == st.sockets_opened[c] + 1
        up == [st EXCEPT !.socket[c] = g,
                         !.sockets_opened[c] = g,
                         !.tcp_connects[c] = @ + 1,
                         !.failed_streak[c] = 0,
                         !.connection_attempts[c] = 0,
                         !.receive_thread[c][g] =
                             [pc |-> "check", pending |-> <<>>, fragment |-> <<>>],
                         !.sending_thread[c][g] = [pc |-> "check", msg |-> <<>>]]
    IN  QueuePut(up, c, HelloMessage)

\* A failed connect after which send_hello runs all the same.
ConnectFailedSaysHello(st, c) ==
    LET down == [st EXCEPT !.socket[c] = 0,
                           !.tcp_connects[c] = @ + 1,
                           !.failed_streak[c] = @ + 1,
                           !.connect_failures[c] = @ + 1,
                           !.connection_attempts[c] = @ + 1]
        said == QueuePut(down, c, HelloMessage)
    IN  IF cfg_require[c]
        THEN [said EXCEPT !.machine_done = TRUE, !.shutdown_signals = @ + 1]
        ELSE said

\* The connect raised socket.error.
ConnectFailed(st, c) ==
    LET down == [st EXCEPT !.socket[c] = 0,
                           !.tcp_connects[c] = @ + 1,
                           !.failed_streak[c] = @ + 1,
                           !.connect_failures[c] = @ + 1,
                           !.connection_attempts[c] = @ + 1]
    IN  IF cfg_require[c]
        THEN [down EXCEPT !.machine_done = TRUE, !.shutdown_signals = @ + 1]
        ELSE down

\* A rule that allows the attempt whose number equals the setting.
MayConnectInclusive(c, attempts) ==
    cfg_attempts[c] = Unbounded \/ attempts <= cfg_attempts[c]

\* setup_client_socket; `ok` is whether the peer accepts the connect
MayConnect(c, attempts) ==
    cfg_attempts[c] = Unbounded \/ attempts < cfg_attempts[c]

SetupClientSocket(st, c, ok) ==
    IF MayConnect(c, st.connection_attempts[c] + 1)
    THEN IF ok /\ st.sockets_opened[c] < MaxSockets
         THEN ConnectSucceeded(st, c)
         ELSE ConnectFailed(st, c)
    ELSE [st EXCEPT !.connection_attempts[c] = @ + 1,
                    !.attempt_socket_connection[c] = FALSE]

\* A send() that drops the message when there is no socket to send it on.
ClientSendConnectedOnly(st, c, message, ok) ==
    LET tried == IF st.socket[c] = 0 /\ st.attempt_socket_connection[c]
                 THEN SetupClientSocket(st, c, ok)
                 ELSE st
    IN  IF tried.socket[c] # 0 THEN QueuePut(tried, c, message) ELSE tried

\* A send() that tries to connect whenever there is no socket.
ClientSendAlwaysConnects(st, c, message, ok) ==
    LET tried == IF st.socket[c] = 0
                 THEN SetupClientSocket(st, c, ok)
                 ELSE st
    IN  QueuePut(tried, c, message)

\* send(message)
ClientSend(st, c, message, ok) ==
    LET tried == IF st.socket[c] = 0 /\ st.attempt_socket_connection[c]
                 THEN SetupClientSocket(st, c, ok)
                 ELSE st
    IN  QueuePut(tried, c, message)

\* self.socket.close(); self.socket = None.  `gb` is the number of the
\* goodbye this stop() has put on the queue, 0 when it put none.
SocketClose(st, c, gb) ==
    [st EXCEPT !.wire[c] = Append(@, [sock |-> st.socket[c], id |-> 0,
                                      msg |-> <<"close">>]),
               !.stop_goodbye[c] =
                   IF gb # 0 THEN @ \cup {[sock |-> st.socket[c], id |-> gb]}
                   ELSE @,
               !.socket[c] = 0]

\* stop() in one piece: the stop() calls of the shutdown() that
\* receive_goodbye runs
Stop(st, c) ==
    IF st.socket[c] # 0
    THEN IF st.send_goodbye[c]
         THEN SocketClose(ClientSend(st, c, GoodbyeMessage, FALSE), c, st.next_id)
         ELSE SocketClose(st, c, 0)
    ELSE st

(***************************************************************************)
(* BCP methods.                                                            *)
(***************************************************************************)
\* for client in self.bcp_clients: client.send(bcp_string)
RECURSIVE SendToClients(_, _, _, _)
SendToClients(st, clients, bcp_string, ok) ==
    IF clients = <<>> THEN st
    ELSE SendToClients(ClientSend(st, Head(clients), bcp_string, ok[Head(clients)]),
                       Tail(clients), bcp_string, ok)

\* send(bcp_command, **kwargs)
BCPSend(st, bcp_command, kwargs, ok) ==
    SendToClients(st, st.bcp_clients, EncodeCommandString(bcp_command, kwargs), ok)

\* remove_bcp_connection(bcp_client): it removes `self`, the BCP object,
\* which the list of clients does not hold; list.remove raises ValueError,
\* which is passed over.
RemoveFromList(list, x) ==
    IF \E i \in 1..Len(list) : list[i] = x
    THEN LET i == CHOOSE i \in 1..Len(list) :
                     list[i] = x /\ \A j \in 1..(i - 1) : list[j] # x
         IN  SubSeq(list, 1, i - 1) \o SubSeq(list, i + 1, Len(list))
    ELSE list

BcpSelf == "BCP"

RemoveBcpConnection(st, bcp_client) ==
    [st EXCEPT !.bcp_clients = RemoveFromList(@, BcpSelf)]

\* shutdown(), run in one piece
RECURSIVE StopAll(_, _)
StopAll(st, clients) ==
    IF clients = <<>> THEN st ELSE StopAll(Stop(st, Head(clients)), Tail(clients))

Shutdown(st) == StopAll(st, st.bcp_clients)

\* BCPClient.receive_goodbye() up to the `if self.socket:` of its stop()
GoodbyeEnter(st, c) ==
    [st EXCEPT !.send_goodbye[c] = FALSE, !.goodbyes[c] = @ + 1]

\* receive_goodbye() after its stop()
GoodbyeLeave(st, c) ==
    LET removed == RemoveBcpConnection(st, c)
    IN  IF cfg_require[c]
        THEN [Shutdown(removed) EXCEPT !.machine_done = TRUE,
                                       !.shutdown_signals = @ + 1]
        ELSE removed

\* bcp_receive_trigger(name=None, **kwargs)
Without(f, k) == [x \in DOMAIN f \ {k} |-> f[x]]

\* A handler that hands `name` on to the event with the other parameters.
BcpReceiveTriggerKeepsName(st, kwargs) ==
    IF <<"name">> \notin DOMAIN kwargs \/ kwargs[<<"name">>] = <<>> THEN st
    ELSE [st EXCEPT !.posted = Append(@,
            [event |-> <<"trigger_">> \o kwargs[<<"name">>],
             kwargs |-> kwargs, callback |-> <<>>])]

BcpReceiveTrigger(st, kwargs) ==
    IF <<"name">> \notin DOMAIN kwargs \/ kwargs[<<"name">>] = <<>> THEN st
    ELSE LET rest == Without(kwargs, <<"name">>)
             event == <<"trigger_">> \o kwargs[<<"name">>]
         IN  IF <<"callback">> \in DOMAIN rest
             THEN [st EXCEPT !.posted = Append(@,
                      [event |-> event,
                       kwargs |-> Without(rest, <<"callback">>),
                       callback |-> rest[<<"callback">>]])]
             ELSE [st EXCEPT !.posted = Append(@,
                      [event |-> event, kwargs |-> rest, callback |-> <<>>])]

\* A pass of the loop that lets a command with no handler go unanswered.
HandleCommandSilent(st, entry, ok) ==
    IF entry.cmd \in ReceiveCommands
    THEN LET called == [st EXCEPT !.handler_calls = @ + 1]
         IN  IF entry.cmd = <<"trigger">>
             THEN BcpReceiveTrigger(called, entry.kwargs)
             ELSE called
    ELSE st

\* One pass of the loop of get_bcp_messages: the handler of the command,
\* or the error reply to a command that has none.
HandleCommand(st, entry, ok) ==
    IF entry.cmd \in ReceiveCommands
    THEN LET called == [st EXCEPT !.handler_calls = @ + 1]
         IN  IF entry.cmd = <<"trigger">>
             THEN BcpReceiveTrigger(called, entry.kwargs)
             ELSE called
    ELSE BCPSend(st, <<"error">>,
                 << <<(<<"message">>), <<"invalid", " ", "command">> >>,
                    <<(<<"command">>), entry.cmd>> >>, ok)

GetBcpMessage(st, ok) ==
    LET entry == Head(st.receive_queue)
        taken == [st EXCEPT !.receive_queue = Tail(@)]
        done == HandleCommand(taken, entry, ok)
    IN  [done EXCEPT !.dispatched = @ \cup {entry.a.n},
                     !.tick_handled = @ \cup {entry.a}]

(***************************************************************************)
(* Initial state: the fields as BCP.__init__ and BCPClient.__init__ set    *)
(* them, before the first setup_client_socket().                           *)
(***************************************************************************)
NoThread == [pc |-> "none", msg |-> <<>>]

NoReceiver == [pc |-> "none", pending |-> <<>>, fragment |-> <<>>]

ProgInit ==
    /\ bcp_clients = <<>>
    /\ receive_queue = <<>>
    /\ machine_done = FALSE
    /\ socket = [c \in Conns |-> 0]
    /\ connection_attempts = [c \in Conns |-> 0]
    /\ attempt_socket_connection = [c \in Conns |-> TRUE]
    /\ send_goodbye = [c \in Conns |-> TRUE]
    /\ sending_queue = [c \in Conns |-> <<>>]
    /\ sending_thread = [c \in Conns |-> [g \in Sockets |-> NoThread]]
    /\ receive_thread = [c \in Conns |-> [g \in Sockets |-> NoReceiver]]
    /\ wire = [c \in Conns |-> <<>>]
    /\ posted = <<>>
    /\ dmd_frames = <<>>
    /\ sockets_opened = [c \in Conns |-> 0]
    /\ tcp_connects = [c \in Conns |-> 0]
    /\ failed_streak = [c \in Conns |-> 0]
    /\ connect_failures = [c \in Conns |-> 0]
    /\ goodbyes = [c \in Conns |-> 0]
    /\ shutdown_signals = 0
    /\ handler_calls = 0
    /\ next_id = 1
    /\ arrived = 0
    /\ decoded = {}
    /\ dispatched = {}
    /\ unapplied = {}
    /\ tick_handled = {}
    /\ stop_goodbye = [c \in Conns |-> {}]

HostInit ==
    /\ host = [pc |-> "init", todo |-> connection_config, cur |-> "c1", gb |-> 0]
    /\ sends = 0
    /\ shutdowns = 0

\* one connection, with any of the settings
OneConnection ==
    /\ connection_config = <<"c1">>
    /\ \E a \in {Unbounded, ConnectionAttempts} :
          cfg_attempts = [c \in Conns |-> IF c = "c1" THEN a ELSE Unbounded]
    /\ \E r \in BOOLEAN :
          cfg_require = [c \in Conns |-> c = "c1" /\ r]

\* one connection with the default settings
DefaultConnection ==
    /\ connection_config = <<"c1">>
    /\ cfg_attempts = [c \in Conns |-> Unbounded]
    /\ cfg_require = [c \in Conns |-> FALSE]

FrIdle ==
    /\ fr_original = <<>>
    /\ fr_stream = <<>>
    /\ fr_received = <<>>
    /\ fr_fragment = <<>>
    /\ fr_segments = <<>>
    /\ fr_emitted = <<>>
    /\ fr_carried = FALSE

CdIdle ==
    /\ cd_pc = "idle"
    /\ cd_command = <<>>
    /\ cd_kwargs = <<>>
    /\ cd_string = <<>>
    /\ cd_decoded = [cmd |-> <<>>, kwargs |-> <<>>]

\* the host and the peers may do any MaxEvents things
AnyEvents ==
    env = [messages |-> InMessages, events |-> MaxEvents, sends |-> MaxEvents,
           shutdowns |-> MaxEvents, inbound |-> MaxEvents, ordered |-> FALSE]

Init == OneConnection /\ AnyEvents /\ ProgInit /\ HostInit /\ FrIdle /\ CdIdle

(***************************************************************************)
(* The host thread.                                                        *)
(***************************************************************************)
Outcomes == [Conns -> BOOLEAN]

\* what the host and the peers have done to the program so far
Events == sends + shutdowns + arrived

others == <<frVars, cdVars, cfgVars>>

\* _setup_bcp_connections: BCPClient(...) runs setup_client_socket() and
\* the client is appended to bcp_clients
ClientConstruct(ok) ==
    /\ host.pc = "init"
    /\ host.todo # <<>>
    /\ LET c == Head(host.todo)
           st == SetupClientSocket(State, c, ok[c])
       IN  Becomes([st EXCEPT !.bcp_clients = Append(@, c)])
    /\ host' = [host EXCEPT !.todo = Tail(@)]
    /\ UNCHANGED <<sends, shutdowns, others>>

Constructed ==
    /\ host.pc = "init"
    /\ host.todo = <<>>
    /\ host' = [host EXCEPT !.pc = "idle"]
    /\ UNCHANGED <<progVars, sends, shutdowns, others>>

\* the host sends a command: BCP.send('trigger', name='ball_start')
HostSend(ok) ==
    /\ host.pc = "idle"
    /\ sends < env.sends
    /\ env.ordered => shutdowns = env.shutdowns
    /\ Events < env.events
    /\ Becomes(BCPSend(State, <<"trigger">>,
                       << <<(<<"name">>), <<"ball_start">> >> >>, ok))
    /\ sends' = sends + 1
    /\ UNCHANGED <<host, shutdowns, others>>

\* the timer_tick event calls get_bcp_messages: one pass of its loop
TickIter(ok) ==
    /\ host.pc = "idle"
    /\ receive_queue # <<>>
    /\ Becomes(GetBcpMessage(State, ok))
    /\ UNCHANGED <<hostVars, others>>

\* BCP.shutdown() on the host thread: stop() of each client in turn
ShutdownBegin ==
    /\ host.pc = "idle"
    /\ shutdowns < env.shutdowns
    /\ Events < env.events
    /\ host' = [host EXCEPT !.pc = "shutdown", !.todo = bcp_clients]
    /\ shutdowns' = shutdowns + 1
    /\ UNCHANGED <<progVars, sends, others>>

\* stop() up to the send of the goodbye
StopEnter ==
    /\ host.pc = "shutdown"
    /\ host.todo # <<>>
    /\ LET c == Head(host.todo)
       IN  IF socket[c] # 0
           THEN /\ Becomes(IF send_goodbye[c]
                           THEN ClientSend(State, c, GoodbyeMessage, FALSE)
                           ELSE State)
                /\ host' = [host EXCEPT !.pc = "close", !.cur = c,
                                        !.todo = Tail(@),
                                        !.gb = IF send_goodbye[c] THEN next_id ELSE 0]
           ELSE /\ host' = [host EXCEPT !.todo = Tail(@)]
                /\ UNCHANGED progVars
    /\ UNCHANGED <<sends, shutdowns, others>>

\* The rest of stop().  When the receive thread has cleared the socket in
\* between, close() is called on None and the AttributeError ends
\* shutdown().
StopClose ==
    /\ host.pc = "close"
    /\ IF socket[host.cur] # 0
       THEN /\ Becomes(SocketClose(State, host.cur, host.gb))
            /\ host' = [host EXCEPT !.pc = "shutdown", !.gb = 0]
       ELSE /\ host' = [host EXCEPT !.pc = "idle", !.todo = <<>>, !.gb = 0]
            /\ UNCHANGED progVars
    /\ UNCHANGED <<sends, shutdowns, others>>

ShutdownEnd ==
    /\ host.pc = "shutdown"
    /\ host.todo = <<>>
    /\ host' = [host EXCEPT !.pc = "idle"]
    /\ UNCHANGED <<progVars, sends, shutdowns, others>>

(***************************************************************************)
(* sending_loop, one thread per socket opened.                             *)
(***************************************************************************)
\* while self.socket:
SendCheck(c, g) ==
    /\ sending_thread[c][g].pc = "check"
    /\ Becomes([State EXCEPT !.sending_thread[c][g].pc =
                                 IF socket[c] # 0 THEN "get" ELSE "done"])
    /\ UNCHANGED <<hostVars, others>>

\* message = self.sending_queue.get(), which blocks while the queue is empty
SendGet(c, g) ==
    /\ sending_thread[c][g].pc = "get"
    /\ sending_queue[c] # <<>>
    /\ Becomes([State EXCEPT
          !.sending_thread[c][g] = [pc |-> "write", msg |-> Head(sending_queue[c])],
          !.sending_queue[c] = Tail(@)])
    /\ UNCHANGED <<hostVars, others>>

\* self.socket.sendall(message + '\n'); with no socket the AttributeError
\* is passed over and the message is gone
SocketSendall(st, c, message) ==
    IF st.socket[c] # 0
    THEN [st EXCEPT !.wire[c] = Append(@, [sock |-> st.socket[c],
                                           id |-> message.id, msg |-> message.msg])]
    ELSE st

SendWrite(c, g) ==
    /\ sending_thread[c][g].pc = "write"
    /\ Becomes([SocketSendall(State, c, sending_thread[c][g].msg) EXCEPT
          !.sending_thread[c][g] = [pc |-> "check", msg |-> <<>>]])
    /\ UNCHANGED <<hostVars, others>>

(***************************************************************************)
(* receive_loop, one thread per socket opened.                             *)
(***************************************************************************)
RECURSIVE Terminated(_)
Terminated(msgs) ==
    IF msgs = <<>> THEN <<>> ELSE Head(msgs) \o <<LF>> \o Terminated(Tail(msgs))

\* message.startswith('dmd_frame')
IsDmdFrame(message) == message # <<>> /\ message[1] = "dmd_frame"

\* whether the receive thread itself applies the message
IsImmediate(message) ==
    \/ IsDmdFrame(message)
    \/ message # <<>> /\ DecodeCommandString(message).cmd \in ImmediateCommands

\* while self.socket:
RecvCheck(c, g) ==
    /\ receive_thread[c][g].pc = "check"
    /\ Becomes([State EXCEPT !.receive_thread[c][g].pc =
                                 IF socket[c] # 0 THEN "recv" ELSE "done"])
    /\ UNCHANGED <<hostVars, others>>

\* data = self.socket.recv(4096) returns the lines `msgs` the peer sent,
\* which the framer cuts into messages; each is numbered as it arrives.
RecvData(c, g, msgs) ==
    /\ receive_thread[c][g].pc = "recv"
    /\ socket[c] # 0
    /\ env.ordered => sends = env.sends
    /\ \A i \in 1..Len(msgs) : msgs[i] \in env.messages
    /\ arrived + Len(msgs) <= env.inbound
    /\ Events + Len(msgs) <= env.events
    /\ LET r == Frame(receive_thread[c][g].fragment, Terminated(msgs))
           tag(i) == [n |-> arrived + i, conn |-> c, sock |-> socket[c]]
           pending == [i \in 1..Len(r.messages) |->
                          [a |-> tag(i), msg |-> r.messages[i]]]
       IN  Becomes([State EXCEPT
              !.receive_thread[c][g] =
                  [pc |-> "proc", pending |-> pending, fragment |-> r.fragment],
              !.arrived = @ + Len(r.messages),
              !.unapplied = @ \cup {tag(i) : i \in
                                {j \in 1..Len(r.messages) : IsImmediate(r.messages[j])}}])
    /\ UNCHANGED <<hostVars, others>>

\* recv() returns '' (the peer has closed its end): `if data:` is false
\* and the loop goes round
RecvEmpty(c, g) ==
    /\ receive_thread[c][g].pc = "recv"
    /\ socket[c] # 0
    /\ Becomes([State EXCEPT !.receive_thread[c][g].pc = "check"])
    /\ UNCHANGED <<hostVars, others>>

\* self.socket is None by now: self.socket.recv raises AttributeError and
\* the thread ends
RecvNoSocket(c, g) ==
    /\ receive_thread[c][g].pc = "recv"
    /\ socket[c] = 0
    /\ Becomes([State EXCEPT !.receive_thread[c][g].pc = "crashed"])
    /\ UNCHANGED <<hostVars, others>>

\* A dispatch that forgets the commands it has no immediate handler for.
DispatchDropsQueued(st, c, a, message) ==
    LET d == DecodeCommandString(message)
        seen == [st EXCEPT !.decoded = @ \cup {a.n}]
        applied == [seen EXCEPT !.dispatched = @ \cup {a.n},
                                !.unapplied = @ \ {a}]
    IN  IF d.cmd \in ImmediateCommands
        THEN IF d.cmd = <<"goodbye">>
             THEN IF DOMAIN d.kwargs # {}
                  THEN [st |-> applied, raised |-> TRUE, stopping |-> FALSE]
                  ELSE IF st.socket[c] # 0
                  THEN [st |-> GoodbyeEnter(applied, c), raised |-> FALSE,
                        stopping |-> TRUE]
                  ELSE [st |-> GoodbyeLeave(GoodbyeEnter(applied, c), c),
                        raised |-> FALSE, stopping |-> FALSE]
             ELSE [st |-> applied, raised |-> FALSE, stopping |-> FALSE]
        ELSE [st |-> seen, raised |-> FALSE, stopping |-> FALSE]

\* The body of `for message in messages:` for one decoded message.
\* "raised" tells a handler call that raised (receive_goodbye takes no
\* parameters); "stopping" tells that receive_goodbye is in its stop(), past
\* `if self.socket:` and before `self.socket.close()`.
Dispatch(st, c, a, message) ==
    LET d == DecodeCommandString(message)
        seen == [st EXCEPT !.decoded = @ \cup {a.n}]
        applied == [seen EXCEPT !.dispatched = @ \cup {a.n},
                                !.unapplied = @ \ {a}]
    IN  IF d.cmd \in ImmediateCommands
        THEN IF d.cmd = <<"goodbye">>
             THEN IF DOMAIN d.kwargs # {}
                  THEN [st |-> applied, raised |-> TRUE, stopping |-> FALSE]
                  ELSE IF st.socket[c] # 0
                  THEN [st |-> GoodbyeEnter(applied, c), raised |-> FALSE,
                        stopping |-> TRUE]
                  ELSE [st |-> GoodbyeLeave(GoodbyeEnter(applied, c), c),
                        raised |-> FALSE, stopping |-> FALSE]
             ELSE [st |-> applied, raised |-> FALSE, stopping |-> FALSE]
        ELSE [st |-> [seen EXCEPT !.receive_queue =
                         Append(@, [cmd |-> d.cmd, kwargs |-> d.kwargs, a |-> a])],
              raised |-> FALSE, stopping |-> FALSE]

ProcessMessage(st, c, a, message) ==
    IF message = <<>> THEN [st |-> st, raised |-> FALSE, stopping |-> FALSE]
    ELSE IF IsDmdFrame(message)
    THEN [st |-> [st EXCEPT !.dmd_frames = Append(@, SubSeq(message, 3, Len(message))),
                            !.unapplied = @ \ {a}],
          raised |-> FALSE, stopping |-> FALSE]
    ELSE Dispatch(st, c, a, message)

RecvProcess(c, g) ==
    /\ receive_thread[c][g].pc = "proc"
    /\ LET item == Head(receive_thread[c][g].pending)
           rest == Tail(receive_thread[c][g].pending)
           r == ProcessMessage(State, c, item.a, item.msg)
       IN  Becomes([r.st EXCEPT !.receive_thread[c][g] =
              IF r.raised
              THEN [pc |-> "crashed", pending |-> <<>>, fragment |-> <<>>]
              ELSE [pc |-> IF r.stopping THEN "stop"
                           ELSE IF rest = <<>> THEN "check" ELSE "proc",
                    pending |-> rest,
                    fragment |-> receive_thread[c][g].fragment]])
    /\ UNCHANGED <<hostVars, others>>

\* self.socket.close(); self.socket = None in the stop() of receive_goodbye,
\* and the rest of receive_goodbye.  When the host's stop() has cleared the
\* socket in between, close() is called on None: the AttributeError leaves
\* receive_goodbye and ends the thread.
RecvStop(c, g) ==
    /\ receive_thread[c][g].pc = "stop"
    /\ IF socket[c] # 0
       THEN Becomes([GoodbyeLeave(SocketClose(State, c, 0), c) EXCEPT
               !.receive_thread[c][g].pc =
                   IF receive_thread[c][g].pending = <<>> THEN "check" ELSE "proc"])
       ELSE Becomes([State EXCEPT !.receive_thread[c][g] =
               [pc |-> "crashed", pending |-> <<>>, fragment |-> <<>>]])
    /\ UNCHANGED <<hostVars, others>>

\* what one recv() may return: one or two whole lines
Chunks == UNION {[1..n -> InMessages] : n \in 1..2}

Next ==
    \/ \E ok \in Outcomes : ClientConstruct(ok)
    \/ Constructed
    \/ \E ok \in Outcomes : HostSend(ok)
    \/ \E ok \in Outcomes : TickIter(ok)
    \/ ShutdownBegin
    \/ StopEnter
    \/ StopClose
    \/ ShutdownEnd
    \/ \E c \in Conns, g \in Sockets : SendCheck(c, g)
    \/ \E c \in Conns, g \in Sockets : SendGet(c, g)
    \/ \E c \in Conns, g \in Sockets : SendWrite(c, g)
    \/ \E c \in Conns, g \in Sockets : RecvCheck(c, g)
    \/ \E c \in Conns, g \in Sockets, msgs \in Chunks : RecvData(c, g, msgs)
    \/ \E c \in Conns, g \in Sockets : RecvEmpty(c, g)
    \/ \E c \in Conns, g \in Sockets : RecvNoSocket(c, g)
    \/ \E c \in Conns, g \in Sockets : RecvProcess(c, g)
    \/ \E c \in Conns, g \in Sockets : RecvStop(c, g)

Spec == Init /\ [][Next]_vars

\* The host thread goes on: it finishes what it has begun and the timer
\* tick keeps calling get_bcp_messages.
HostProgress ==
    \/ \E ok \in Outcomes : ClientConstruct(ok)
    \/ Constructed
    \/ \E ok \in Outcomes : TickIter(ok)
    \/ StopEnter
    \/ StopClose
    \/ ShutdownEnd

LiveSpec == Init /\ [][Next]_vars /\ WF_vars(HostProgress)

\* one connection with any number of attempts allowed
AnyAttempts ==
    /\ connection_config = <<"c1">>
    /\ \E a \in {Unbounded} \cup (1..ConnectionAttempts) :
          cfg_attempts = [c \in Conns |-> IF c = "c1" THEN a ELSE Unbounded]
    /\ \E r \in BOOLEAN :
          cfg_require = [c \in Conns |-> c = "c1" /\ r]

AttemptsInit ==
    AnyAttempts /\ AnyEvents /\ ProgInit /\ HostInit /\ FrIdle /\ CdIdle

SpecAttempts == AttemptsInit /\ [][Next]_vars

\* A run in which the host shuts down once, then sends once, and then the
\* peer sends two of hello, goodbye and an unknown command (env.ordered:
\* in that order).
StaleScenario ==
    env = [messages |-> { <<"hello", "?", "version", "=", "1.0">>,
                          <<"foo", "?", "x", "=", "1">>,
                          <<"goodbye">> },
           events |-> MaxEvents + 2, sends |-> 1, shutdowns |-> 1, inbound |-> 2,
           ordered |-> TRUE]

StaleInit ==
    DefaultConnection /\ StaleScenario /\ ProgInit /\ HostInit /\ FrIdle /\ CdIdle

SpecStale == StaleInit /\ [][Next]_vars

(***************************************************************************)
(* The framer on its own: a stream of newline-terminated messages, read    *)
(* in chunks of any sizes.                                                 *)
(***************************************************************************)
ProgIdle == DefaultConnection /\ AnyEvents /\ ProgInit /\ HostInit

FrBytes == {"a", "b"}

FrMessages == UNION {[1..n -> FrBytes] : n \in 1..MaxMsgLen}

FrStreams == UNION {[1..n -> FrMessages] : n \in 0..MaxMsgs}

FramerInit ==
    /\ fr_original \in FrStreams
    /\ fr_stream = Terminated(fr_original)
    /\ fr_received = <<>>
    /\ fr_fragment = <<>>
    /\ fr_segments = <<>>
    /\ fr_emitted = <<>>
    /\ fr_carried = FALSE
    /\ ProgIdle /\ CdIdle

\* one pass of `while self.socket:` with recv() returning the next n bytes
FramerRecv(n) ==
    /\ n \in 1..Len(fr_stream)
    /\ LET data == SubSeq(fr_stream, 1, n)
           r == Frame(fr_fragment, data)
       IN  /\ fr_fragment' = r.fragment
           /\ fr_segments' = fr_segments \o r.messages
           /\ fr_emitted' = fr_emitted \o SelectNonEmpty(r.messages)
           /\ fr_carried' = (fr_carried \/ r.fragment # <<>>)
           /\ fr_received' = fr_received \o data
    /\ fr_stream' = SubSeq(fr_stream, n + 1, Len(fr_stream))
    /\ UNCHANGED <<fr_original, cdVars, cfgVars, progVars, hostVars>>

FramerNext == \E n \in 1..(MaxMsgs * (MaxMsgLen + 1)) : FramerRecv(n)

SpecFramer == FramerInit /\ [][FramerNext]_vars

\* The same with any lines in the stream, empty ones among them
\* (consecutive line feeds).
FrLines == UNION {[1..n -> FrBytes] : n \in 0..MaxMsgLen}

FrLineStreams == UNION {[1..n -> FrLines] : n \in 0..MaxMsgs}

FramerLinesInit ==
    /\ fr_original \in FrLineStreams
    /\ fr_stream = Terminated(fr_original)
    /\ fr_received = <<>>
    /\ fr_fragment = <<>>
    /\ fr_segments = <<>>
    /\ fr_emitted = <<>>
    /\ fr_carried = FALSE
    /\ ProgIdle /\ CdIdle

SpecFramerLines == FramerLinesInit /\ [][FramerNext]_vars

(***************************************************************************)
(* The codec on its own: a command is encoded and the string decoded.      *)
(***************************************************************************)
CdCommands == { <<"trigger">>, <<"Trigger">>, <<"A1">> }

CdKeys == { <<"name">>, <<"x">>, <<"y">> }

CdValues == { <<"pong">>, <<"Pong">>, <<"1">> }

\* the kwargs dicts of up to MaxParams parameters, in every order
CdKwargs ==
    UNION { { kw \in [1..n -> CdKeys \X CdValues] :
                \A i, j \in 1..n : i # j => kw[i][1] # kw[j][1] } :
            n \in 0..MaxParams }

CodecInit ==
    /\ cd_pc = "input"
    /\ cd_command \in CdCommands
    /\ cd_kwargs \in CdKwargs
    /\ cd_string = <<>>
    /\ cd_decoded = [cmd |-> <<>>, kwargs |-> <<>>]
    /\ ProgIdle /\ FrIdle

CodecEncode ==
    /\ cd_pc = "input"
    /\ cd_string' = EncodeCommandString(cd_command, cd_kwargs)
    /\ cd_pc' = "encoded"
    /\ UNCHANGED <<cd_command, cd_kwargs, cd_decoded, frVars, cfgVars, progVars, hostVars>>

CodecDecode ==
    /\ cd_pc = "encoded"
    /\ cd_decoded' = DecodeCommandString(cd_string)
    /\ cd_pc' = "decoded"
    /\ UNCHANGED <<cd_command, cd_kwargs, cd_string, frVars, cfgVars, progVars, hostVars>>

CodecNext == CodecEncode \/ CodecDecode

SpecCodec == CodecInit /\ [][CodecNext]_vars

(***************************************************************************)
(* The claims.                                                             *)
(***************************************************************************)
Range(f) == {f[i] : i \in DOMAIN f}

IsPrefix(s, t) == Len(s) <= Len(t) /\ s = SubSeq(t, 1, Len(s))

IsWrite(e) == e.id # 0

\* C1: on every connection the messages written to the wire are in the
\* order in which they were put on its sending queue (the numbers of the
\* messages written only go up).
C1_WireKeepsQueueOrder ==
    \A c \in Conns : \A i, j \in DOMAIN wire[c] :
        (i < j /\ IsWrite(wire[c][i]) /\ IsWrite(wire[c][j]))
            => wire[c][i].id < wire[c][j].id

\* C2: whatever the chunking of a stream of N newline-terminated messages,
\* the messages emitted so far are the first messages of the stream, in
\* order and once each; the fragment is exactly the received part of the
\* next message; and once the whole stream is read all N messages have been
\* emitted and the fragment is empty.
C2_FramerLossless ==
    /\ IsPrefix(fr_emitted, fr_original)
    /\ Terminated(fr_emitted) \o fr_fragment = fr_received
    /\ (fr_stream = <<>> => fr_emitted = fr_original /\ fr_fragment = <<>>)

\* a stream of several messages, read to its end, with a partial message
\* carried across reads
C2_Witness ==
    /\ fr_stream = <<>>
    /\ Len(fr_original) >= 2
    /\ fr_carried
    /\ fr_emitted = fr_original

\* C3: a connection with connection_attempts = 3 that has given up has
\* made 3 TCP connects that failed.
C3_GivesUpAfterAllAttempts ==
    \A c \in Conns :
        (cfg_attempts[c] = ConnectionAttempts /\ ~attempt_socket_connection[c])
            => failed_streak[c] = ConnectionAttempts

\* the failed connects and the goodbyes that are fatal: those of a
\* connection with require_connection
Fatal(c) == IF cfg_require[c] THEN connect_failures[c] + goodbyes[c] ELSE 0

\* C4: `machine.done = True` is executed once for every failed connect and
\* once for every goodbye received on a connection with require_connection,
\* and never for one without (counted when no receive_goodbye is under
\* way).
C4_RequiredConnectionFatal ==
    (\A c \in Conns, g \in Sockets : receive_thread[c][g].pc # "stop")
        => /\ shutdown_signals = Fatal("c1") + Fatal("c2")
           /\ machine_done = (shutdown_signals > 0)

\* what decode_command_string makes of the error command for `name`
ErrorReply(name) ==
    [cmd |-> <<"error">>,
     kwargs |-> (<<"message">> :> <<"invalid", " ", "command">>)
                @@ (<<"command">> :> name)]

\* the messages a step puts on the sending queue of c
PutBy(c) ==
    SubSeq(sending_queue'[c], Len(sending_queue[c]) + 1, Len(sending_queue'[c]))

\* a pass of the tick over a command with no handler, and what it does
C5_Step ==
    (/\ host.pc = "idle"
     /\ receive_queue # <<>>
     /\ receive_queue' = Tail(receive_queue)
     /\ Head(receive_queue).cmd \notin ReceiveCommands)
    => /\ \A c \in Range(bcp_clients) :
            /\ IsPrefix(sending_queue[c], sending_queue'[c])
            /\ Cardinality({i \in DOMAIN PutBy(c) :
                   DecodeCommandString(PutBy(c)[i].msg)
                       = ErrorReply(Head(receive_queue).cmd)}) = 1
            /\ \A i \in DOMAIN PutBy(c) :
                   DecodeCommandString(PutBy(c)[i].msg).cmd \in {<<"error">>, <<"hello">>}
       /\ handler_calls' = handler_calls
       /\ posted' = posted

\* C5: the pass of the tick that takes a command with no handler off the
\* receive queue puts exactly one error command, with message='invalid
\* command' and command=<the name>, on the sending queue of every client
\* (beside the hello of a connection it opens), and calls no handler.
C5_UnknownCommandAnswered == [][C5_Step]_vars

\* the reply to the unknown command foo has been written to the wire
C5_Witness ==
    \E c \in Conns : \E i \in DOMAIN wire[c] :
        /\ IsWrite(wire[c][i])
        /\ DecodeCommandString(wire[c][i].msg) = ErrorReply(<<"foo">>)
        /\ \E a \in tick_handled : a.conn = c

\* C6: the goodbye that stop() puts on the queue is written to the socket
\* before stop() closes it.
C6_GoodbyeBeforeClose ==
    \A c \in Conns : \A s \in stop_goodbye[c] :
        \E i, j \in DOMAIN wire[c] :
            /\ i < j
            /\ wire[c][i].id = s.id /\ wire[c][i].sock = s.sock
            /\ ~IsWrite(wire[c][j]) /\ wire[c][j].sock = s.sock

\* C7: a connection that has processed an inbound goodbye (no
\* receive_goodbye of it is under way) is no longer in the list of clients
\* BCP.send() goes through.
C7_GoodbyeRemovesConnection ==
    \A c \in Conns :
        (goodbyes[c] > 0 /\ \A g \in Sockets : receive_thread[c][g].pc # "stop")
            => c \notin Range(bcp_clients)

\* C8: when the tick handles a queued command, every immediate command that
\* arrived before it on the same socket has been applied.
C8_ImmediateBeforeQueued ==
    \A q \in tick_handled : \A i \in unapplied :
        ~(i.conn = q.conn /\ i.sock = q.sock /\ i.n < q.n)

\* C9: every message decoded is in the end given to a handler or answered
\* with an error command.
C9_DecodedIsDispatched ==
    \A n \in 1..MaxEvents : (n \in decoded) ~> (n \in dispatched)

\* a queued command that the tick has handled
C9_Witness ==
    /\ tick_handled # {}
    /\ \A a \in tick_handled : a.n \in decoded /\ a.n \in dispatched
    /\ receive_queue = <<>>

\* C10: decode(encode(name, params)) is (name.lower(), params).
C10_RoundTrip ==
    cd_pc = "decoded"
        => cd_decoded = [cmd |-> LowerStr(cd_command), kwargs |-> AsDict(cd_kwargs)]

\* C11 as stated: after every read the messages emitted so far, each
\* followed by a line feed, and then the fragment, are the bytes received
\* so far.
C11_EmittedRejoin ==
    Terminated(fr_emitted) \o fr_fragment = fr_received

\* C11 amended: after every read the entries of `messages` gone over so
\* far (the empty ones with them), each followed by a line feed, and then
\* the fragment, are the bytes received so far; the messages emitted are
\* the non-empty ones of those entries, in order.
C11_SegmentsRejoin ==
    /\ Terminated(fr_segments) \o fr_fragment = fr_received
    /\ fr_emitted = SelectNonEmpty(fr_segments)

\* a stream with consecutive line feeds read to its end in several reads,
\* one of which left a partial message
C11_Witness ==
    /\ fr_stream = <<>>
    /\ fr_carried
    /\ \E i \in DOMAIN fr_segments : fr_segments[i] = <<>>
    /\ fr_emitted # <<>>
    /\ Len(fr_emitted) < Len(fr_segments)

\* the wire string of the command the host sends
BallStartMessage == <<"trigger", "?", "name", "=", "ball_start">>

\* a BCP.send() of the host, and what it does
C12_Step ==
    (sends' = sends + 1)
    => /\ \A c \in Range(bcp_clients) :
            /\ IsPrefix(sending_queue[c], sending_queue'[c])
            /\ PutBy(c) # <<>>
            /\ Last(PutBy(c)).msg = BallStartMessage
            /\ Cardinality({i \in DOMAIN PutBy(c) :
                               PutBy(c)[i].msg = BallStartMessage}) = 1
       /\ \A c \in Conns \ Range(bcp_clients) : sending_queue'[c] = sending_queue[c]
       /\ receive_queue' = receive_queue
       /\ bcp_clients' = bcp_clients

RECURSIVE TriggersOn(_)
TriggersOn(w) ==
    IF w = <<>> THEN <<>>
    ELSE (IF IsWrite(Head(w)) /\ Head(w).msg[1] = "trigger"
          THEN <<Head(w).msg>> ELSE <<>>) \o TriggersOn(Tail(w))

\* a run in which the connection was made at once and never stopped, at a
\* moment when everything put on the sending queue has been written
C13_Drained ==
    /\ host.pc = "idle"
    /\ bcp_clients = <<"c1">>
    /\ shutdowns = 0
    /\ goodbyes["c1"] = 0
    /\ connect_failures["c1"] = 0
    /\ sending_queue["c1"] = <<>>
    /\ \A g \in Sockets : sending_thread["c1"][g].pc # "write"

\* the pass of the tick over the command trigger?name=pong, and what it does
C13_Step ==
    (/\ host.pc = "idle"
     /\ receive_queue # <<>>
     /\ receive_queue' = Tail(receive_queue)
     /\ Head(receive_queue).cmd = <<"trigger">>
     /\ Head(receive_queue).kwargs = (<<"name">> :> <<"pong">>))
    => /\ Len(posted') = Len(posted) + 1
       /\ SubSeq(posted', 1, Len(posted)) = posted
       /\ Last(posted').event = <<"trigger_", "pong">>
       /\ DOMAIN Last(posted').kwargs = {}
       /\ Last(posted').callback = <<>>
       /\ sending_queue' = sending_queue

\* C13: with one connection, made at once and never stopped, every
\* BCP.send('trigger', name='ball_start') of the host is on the socket as
\* trigger?name=ball_start once the sending queue is drained; and the pass
\* of the tick over an inbound trigger?name=pong posts exactly one event,
\* trigger_pong with no parameters, and puts nothing on a sending queue.
C13_EndToEnd ==
    /\ [](C13_Drained =>
            TriggersOn(wire["c1"]) = [i \in 1..sends |-> BallStartMessage])
    /\ [][C13_Step]_vars

\* the host's trigger is on the socket and the peer's trigger has been
\* posted
C13_Witness ==
    /\ C13_Drained
    /\ sends >= 1
    /\ TriggersOn(wire["c1"]) # <<>>
    /\ posted # <<>>
    /\ \E a \in tick_handled : a.conn = "c1"

\* what a step may do to the connecting of c
C14_Step ==
    \A c \in Conns :
       LET allowed == \/ cfg_attempts[c] = -1
                      \/ connection_attempts[c] + 1 < cfg_attempts[c]
       IN  /\ tcp_connects'[c] # tcp_connects[c]
              => /\ tcp_connects'[c] = tcp_connects[c] + 1
                 /\ allowed
                 /\ attempt_socket_connection[c]
                 /\ attempt_socket_connection'[c]
                 /\ connection_attempts'[c] \in {0, connection_attempts[c] + 1}
           /\ (attempt_socket_connection[c] /\ ~attempt_socket_connection'[c])
              => /\ ~allowed
                 /\ connection_attempts'[c] = connection_attempts[c] + 1
                 /\ tcp_connects'[c] = tcp_connects[c]
                 /\ socket[c] = 0
           /\ ~attempt_socket_connection[c]
              => /\ ~attempt_socket_connection'[c]
                 /\ tcp_connects'[c] = tcp_connects[c]
                 /\ sockets_opened'[c] = sockets_opened[c]
                 /\ socket[c] = 0
                 /\ socket'[c] = 0

\* C14: a connect is made only by an attempt whose incremented count is
\* below the setting (or the setting is -1); the attempt that is not
\* allowed counts too and makes the connection give up; and a connection
\* that has given up never connects again and never holds a socket.
C14_GivingUpIsTerminal == [][C14_Step]_vars

\* a connection that gave up after a failed connect, and was sent to since
C14_Witness ==
    /\ ~attempt_socket_connection["c1"]
    /\ tcp_connects["c1"] >= 1
    /\ connection_attempts["c1"] = cfg_attempts["c1"]
    /\ Len(sending_queue["c1"]) >= 2

\* the threads of c that are inside the body of their loop
LiveSenders(c) == {g \in Sockets : sending_thread[c][g].pc \in {"get", "write"}}

LiveReceivers(c) ==
    {g \in Sockets : receive_thread[c][g].pc \in {"recv", "proc", "stop"}}

\* C15: at every reachable state a connection has at most one sending
\* thread and at most one receive thread inside its loop.
C15_OnePipelineEach ==
    \A c \in Conns :
       /\ Cardinality(LiveSenders(c)) <= 1
       /\ Cardinality(LiveReceivers(c)) <= 1

\* stop() has closed a socket of c and self.socket is None
StoppedNow(c) ==
    /\ socket[c] = 0
    /\ \E i \in DOMAIN wire[c] : wire[c][i].msg = <<"close">>

\* the sending thread g of c is blocked in sending_queue.get(): only a
\* message put on the queue lets it go on to test self.socket again
WaitsForMessage(c, g) ==
    /\ sending_thread[c][g].pc = "get"
    /\ sending_queue[c] = <<>>

\* C16: once stop() has closed the socket and cleared self.socket, the
\* threads of the connection end on that signal alone: none of them is
\* left waiting for a message.
C16_StopEndsThreads ==
    StoppedNow("c1") => \A g \in Sockets : ~WaitsForMessage("c1", g)

\* the step in which self.socket.recv of thread g returns no data
ZeroRead(c, g) ==
    /\ receive_thread[c][g].pc = "recv"
    /\ socket[c] # 0
    /\ receive_thread'[c][g] # receive_thread[c][g]
    /\ receive_thread'[c][g].pc # "proc"

C17_Step ==
    \A c \in Conns, g \in Sockets :
       ZeroRead(c, g) => receive_thread'[c][g].pc = "done"

\* C17: when the peer has closed the connection and recv returns no
\* data, the receive thread leaves its loop.
C17_ZeroReadEndsLoop == [][C17_Step]_vars

\* the hellos among the messages a step has put on the queue of c
HellosPutBy(c) ==
    {i \in DOMAIN PutBy(c) : PutBy(c)[i].msg = HelloMessage}

C18_Step ==
    \A c \in Conns :
       /\ sockets_opened'[c] # sockets_opened[c]
          => LET g == sockets_opened'[c]
             IN  /\ g = sockets_opened[c] + 1
                 /\ socket'[c] = g
                 /\ connection_attempts'[c] = 0
                 /\ sending_thread[c][g].pc = "none"
                 /\ sending_thread'[c][g].pc = "check"
                 /\ receive_thread[c][g].pc = "none"
                 /\ receive_thread'[c][g].pc = "check"
                 /\ IsPrefix(sending_queue[c], sending_queue'[c])
                 /\ Cardinality(HellosPutBy(c)) = 1
       /\ connect_failures'[c] # connect_failures[c]
          => /\ sockets_opened'[c] = sockets_opened[c]
             /\ socket'[c] = 0
             /\ sending_thread'[c] = sending_thread[c]
             /\ receive_thread'[c] = receive_thread[c]
             /\ IsPrefix(sending_queue[c], sending_queue'[c])
             /\ HellosPutBy(c) = {}

\* C18: a connect that succeeds sets connection_attempts to 0, starts
\* the sending thread and the receive thread of the new socket and puts
\* exactly one hello?version=1.0 on the sending queue; a connect that
\* fails starts no thread and puts no hello.
C18_ConnectOutcome == [][C18_Step]_vars

\* a connection whose first connect failed and whose second succeeded
C18_Witness ==
    /\ connect_failures["c1"] >= 1
    /\ sockets_opened["c1"] >= 1
    /\ \E i \in DOMAIN wire["c1"] : wire["c1"][i].msg = HelloMessage

\* the step has run setup_client_socket for c
Attempted(c) ==
    \/ connection_attempts'[c] # connection_attempts[c]
    \/ tcp_connects'[c] # tcp_connects[c]
    \/ attempt_socket_connection'[c] # attempt_socket_connection[c]

\* the commands a step has put on the queue of c
RECURSIVE Msgs(_)
Msgs(q) == IF q = <<>> THEN <<>> ELSE <<Head(q).msg>> \o Msgs(Tail(q))

\* what send(message) of c does in one step: the hello is the one that
\* send_hello puts when the connect has succeeded
SendDoes(c, message) ==
    /\ Attempted(c) <=> (socket[c] = 0 /\ attempt_socket_connection[c])
    /\ IsPrefix(sending_queue[c], sending_queue'[c])
    /\ Msgs(PutBy(c)) = IF sockets_opened'[c] # sockets_opened[c]
                         THEN <<HelloMessage, message>>
                         ELSE <<message>>

C19_Step ==
    /\ (sends' = sends + 1)
       => \A c \in Range(bcp_clients) : SendDoes(c, BallStartMessage)
    /\ (host.pc = "shutdown" /\ host'.pc = "close" /\ send_goodbye[host'.cur])
       => SendDoes(host'.cur, GoodbyeMessage)

\* C19: send(message) runs a connect attempt exactly when there is no
\* socket and the connection has not given up, and in every case the
\* message is put once at the tail of the sending queue, after what the
\* attempt has put there.
C19_SendConnectsAndAppends == [][C19_Step]_vars

\* a connection that has given up and has been sent two messages since
C19_Witness ==
    /\ ~attempt_socket_connection["c1"]
    /\ sends = 2
    /\ Msgs(sending_queue["c1"]) = <<BallStartMessage, BallStartMessage>>

\* the arrivals a receive thread has read and not yet put on receive_queue
WaitingToBeQueued ==
    UNION { { p[i].a : i \in {j \in 1..Len(p) : p[j].msg # <<>> /\ ~IsImmediate(p[j].msg)} } :
            p \in {receive_thread[c][g].pending : c \in Conns, g \in Sockets} }

\* the arrivals on receive_queue, in its order
Queued == [i \in 1..Len(receive_queue) |-> receive_queue[i].a]

SameSocket(a, b) == a.conn = b.conn /\ a.sock = b.sock

\* receive_queue and the tick keep the order of arrival of each socket
C20_InOrder ==
    /\ \A i, j \in DOMAIN Queued :
          (i < j /\ SameSocket(Queued[i], Queued[j])) => Queued[i].n < Queued[j].n
    /\ \A a \in Range(Queued) \cup WaitingToBeQueued, h \in tick_handled :
          SameSocket(a, h) => h.n < a.n
    /\ \A a \in WaitingToBeQueued, q \in Range(Queued) :
          SameSocket(a, q) => q.n < a.n

\* a pass of the tick takes the command at the head, one it has not
\* handled before
C20_Step ==
    (host.pc = "idle" /\ receive_queue # <<>> /\ receive_queue' = Tail(receive_queue))
    => /\ Head(receive_queue).a \notin tick_handled
       /\ tick_handled' = tick_handled \cup {Head(receive_queue).a}
       /\ Head(receive_queue).a \notin Range([i \in 1..Len(receive_queue') |->
                                                receive_queue'[i].a])

\* C20: the commands put on receive_queue are handled by the tick once
\* each, and those of one socket in the order in which they arrived on it.
C20_OnceAndInOrder == []C20_InOrder /\ [][C20_Step]_vars

\* the messages written to socket g of c, in the order of writing
RECURSIVE WrittenOn(_, _)
WrittenOn(w, g) ==
    IF w = <<>> THEN <<>>
    ELSE (IF IsWrite(Head(w)) /\ Head(w).sock = g THEN <<Head(w).msg>> ELSE <<>>)
         \o WrittenOn(Tail(w), g)

\* C21: the first message written to every socket of a connection is the
\* hello, whatever was put on the sending queue while there was no socket.
C21_HelloFirst ==
    \A c \in Conns, g \in Sockets :
       WrittenOn(wire[c], g) # <<>> => Head(WrittenOn(wire[c], g)) = HelloMessage

C22_Step ==
    \A c \in Conns :
       StoppedNow(c) => /\ socket'[c] = 0
                        /\ sockets_opened'[c] = sockets_opened[c]

\* C22: once stop() has closed the socket of a connection and cleared
\* self.socket, no step (no send() of the client or of BCP) opens a new
\* socket for it.
C22_StoppedStaysClosed == [][C22_Step]_vars

\* the step in which receive thread g of c calls self.socket.recv while
\* self.socket is None
ReadsAbsent(c, g) ==
    /\ receive_thread[c][g].pc = "recv"
    /\ socket[c] = 0
    /\ receive_thread'[c][g].pc = "crashed"

\* the step in which the stop() of receive_goodbye calls self.socket.close
\* while self.socket is None
GoodbyeClosesAbsent(c, g) ==
    /\ receive_thread[c][g].pc = "stop"
    /\ socket[c] = 0
    /\ receive_thread'[c][g].pc = "crashed"

\* the same step of the stop() that the host's shutdown() runs
HostClosesAbsent ==
    /\ host.pc = "close"
    /\ socket[host.cur] = 0
    /\ host'.pc = "idle"

C23_Step ==
    /\ ~HostClosesAbsent
    /\ \A c \in Conns, g \in Sockets : ~ReadsAbsent(c, g) /\ ~GoodbyeClosesAbsent(c, g)

\* C23: however stop() on one thread interleaves with the receive thread,
\* the receive thread never calls recv on a cleared socket reference and
\* stop() never calls close on one.
C23_NoCallOnAbsentSocket == [][C23_Step]_vars

=============================================================================
